---- MODULE Spec2Model ----
(***************************************************************************)
(* Hangman (src/hangman.c): the difficulty/replay program, i.e. the second *)
(* main() of the file (lines 671-896), with the helpers it calls.          *)
(*                                                                         *)
(* Characters are one-character strings; C strings are sequences of        *)
(* characters without the terminating NUL.  Standard input is a stream of  *)
(* characters: the part of the current line not yet read is `unread`, and  *)
(* `ended` says that nothing follows it.  Every fresh piece of input (the  *)
(* text up to and including the next newline, or up to end-of-input) is    *)
(* chosen by the environment when the program first reads into it.         *)
(*                                                                         *)
(* One action is one blocking read of main() together with everything the  *)
(* program does until the next blocking read or the exit.                  *)
(***************************************************************************)
EXTENDS Integers, Sequences, FiniteSets

VARIABLES
  pc,                   \* where main() is blocked: load, difficulty, guess, playAgain, done
  exitCode,             \* value returned by main(), -1 while it runs
  freeCount,            \* number of calls of freeWordList on the loaded list
  loadedWordCount,      \* main: int loadedWordCount
  playAgain,            \* main: char playAgain
  maxIncorrectGuesses,  \* main: int maxIncorrectGuesses
  difficultyChoice,     \* main: int difficultyChoice
  secretWord,           \* main: char *secretWord
  incorrectGuesses,     \* main: int incorrectGuesses
  displayWord,          \* main: char displayWord[wordLength + 1]
  guessedLetters,       \* main: char guessedLetters[], numGuessedLetters = Len
  gameOver,             \* main: int gameOver
  playerWon,            \* main: int playerWon
  inputBuffer,          \* main: char inputBuffer[], the text of the last guess read
  currentGuess,         \* main: char currentGuess
  lastResult,           \* branch the last turn of the round loop took
  message,              \* final message printed after the round loop
  unread,               \* stdin: rest of the line a read stopped in
  ended,                \* stdin: no input follows `unread`
  difficultyBuffer,     \* main: char difficultyBuffer[], the text of the choice read
  responseBuffer,       \* main: char responseBuffer[], the text of the answer read
  discarded,            \* whole lines pauseForUser consumed past the rejected one
  pausedLine,           \* the line pauseForUser consumed past the rejected one
  drawing               \* what drawHangman printed last

vars == <<pc, exitCode, freeCount, loadedWordCount, playAgain,
          maxIncorrectGuesses, difficultyChoice, secretWord, incorrectGuesses,
          displayWord, guessedLetters, gameOver, playerWon, inputBuffer,
          currentGuess, lastResult, message, unread, ended, difficultyBuffer,
          responseBuffer, discarded, pausedLine, drawing>>

roundVars == <<secretWord, incorrectGuesses, displayWord, guessedLetters,
               gameOver, playerWon, inputBuffer, currentGuess, lastResult,
               message, discarded, pausedLine, drawing>>

(***************************************************************************)
(* Program constants.                                                      *)
(***************************************************************************)
INPUT_BUFFER_SIZE == 10
ALPHABET_SIZE == 26
EASY_GUESSES == 8
MEDIUM_GUESSES == 6
HARD_GUESSES == 4

NL == "\n"
NUL == "NUL"
PLACEHOLDER == "_"

(***************************************************************************)
(* <ctype.h> and <string.h> in the "C" locale.                             *)
(***************************************************************************)
LowerCase == <<"a", "b", "c", "d", "e", "f", "g", "h", "i", "j", "k", "l", "m",
               "n", "o", "p", "q", "r", "s", "t", "u", "v", "w", "x", "y", "z">>
UpperCase == <<"A", "B", "C", "D", "E", "F", "G", "H", "I", "J", "K", "L", "M",
               "N", "O", "P", "Q", "R", "S", "T", "U", "V", "W", "X", "Y", "Z">>
Digits == <<"0", "1", "2", "3", "4", "5", "6", "7", "8", "9">>

Range(s) == {s[i] : i \in 1..Len(s)}

islower(c) == c \in Range(LowerCase)
isupper(c) == c \in Range(UpperCase)
\* mutant: every character passes for a letter
isalpha_Any(c) == TRUE

isalpha(c) == islower(c) \/ isupper(c)
isdigit(c) == c \in Range(Digits)
\* the white space of the C locale: space, \n, \t, \r, form feed (\f) and
\* vertical tab (\v, the character 0x0B)
FORM_FEED == "\f"
VERTICAL_TAB == ""
isspace(c) == c \in {" ", NL, "\t", "\r", FORM_FEED, VERTICAL_TAB}

\* mutant: the case of the character is kept
tolower_Identity(c) == c

tolower(c) ==
  IF isupper(c) THEN LowerCase[CHOOSE i \in 1..ALPHABET_SIZE : UpperCase[i] = c]
  ELSE c

strlen(s) == Len(s)

\* strchr(s, c) != NULL, for c other than NUL
strchr(s, c) == \E i \in 1..Len(s) : s[i] = c

DigitValue(c) == (CHOOSE i \in 1..10 : Digits[i] = c) - 1


(***************************************************************************)
(* sscanf(buffer, "%d", &n): skip white space, an optional sign, then the  *)
(* longest run of digits; with no digit nothing is stored and n keeps its  *)
(* old value.  A buffer holds at most INPUT_BUFFER_SIZE - 1 characters, so *)
(* the value fits an int.                                                  *)
(***************************************************************************)
RECURSIVE SkipSpace(_)
SkipSpace(s) ==
  IF s # <<>> /\ isspace(Head(s)) THEN SkipSpace(Tail(s)) ELSE s

RECURSIVE DigitsPrefix(_)
DigitsPrefix(s) ==
  IF s # <<>> /\ isdigit(Head(s)) THEN <<Head(s)>> \o DigitsPrefix(Tail(s))
  ELSE <<>>

RECURSIVE Decimal(_)
Decimal(ds) ==
  IF ds = <<>> THEN 0
  ELSE 10 * Decimal(SubSeq(ds, 1, Len(ds) - 1)) + DigitValue(ds[Len(ds)])

sscanf_d(buffer, old) ==
  LET s == SkipSpace(buffer)
      signed == s # <<>> /\ Head(s) \in {"+", "-"}
      ds == DigitsPrefix(IF signed THEN Tail(s) ELSE s)
  IN IF ds = <<>> THEN old
     ELSE IF signed /\ Head(s) = "-" THEN 0 - Decimal(ds)
     ELSE Decimal(ds)

\* mutant: a choice out of range is clamped to the nearest tier
DifficultyGuesses_Clamp(choice) ==
  IF choice <= 1 THEN EASY_GUESSES
  ELSE IF choice = 2 THEN MEDIUM_GUESSES
  ELSE HARD_GUESSES

\* switch (difficultyChoice)
DifficultyGuesses(choice) ==
  CASE choice = 1 -> EASY_GUESSES
    [] choice = 2 -> MEDIUM_GUESSES
    [] choice = 3 -> HARD_GUESSES
    [] OTHER -> MEDIUM_GUESSES

(***************************************************************************)
(* Standard input.  Source is the text the next read meets: the rest of    *)
(* the line a previous read stopped in, nothing once the input has ended,  *)
(* otherwise the fresh text t, which ends with a newline unless the input  *)
(* ends after it.                                                          *)
(***************************************************************************)
Source(u, e, t) == IF u # <<>> THEN u ELSE IF e THEN <<>> ELSE t

EndsLine(src) == src # <<>> /\ src[Len(src)] = NL

\* fgets(buf, INPUT_BUFFER_SIZE, stdin); buf = <<>> is the NULL return
fgets(src) ==
  LET n == INPUT_BUFFER_SIZE - 1
  IN IF Len(src) <= n
     THEN [buf |-> src, unread |-> <<>>, ended |-> ~EndsLine(src)]
     ELSE [buf |-> SubSeq(src, 1, n), unread |-> SubSeq(src, n + 1, Len(src)),
           ended |-> FALSE]

\* the number of lines that end in a text
Lines(text) == Cardinality({i \in 1..Len(text) : text[i] = NL})

\* mutant: the pause returns without reading anything
consumeRemainingInput_Nothing(src) ==
  [unread |-> src, ended |-> src = <<>>, eaten |-> <<>>]

\* getchar() until '\n' or EOF; eaten is what the calls consumed
consumeRemainingInput(src) ==
  [unread |-> <<>>, ended |-> ~EndsLine(src), eaten |-> src]

(***************************************************************************)
(* The turn of the round loop.                                             *)
(***************************************************************************)
\* mutant: the loop stops one position early
InitDisplay_Short(word) == [j \in 1..(Len(word) - 1) |-> PLACEHOLDER]

\* for (j = 0; j < wordLength; j++) displayWord[j] = '_';
InitDisplay(word) == [j \in 1..Len(word) |-> PLACEHOLDER]

\* mutant: only too short a text is a format error
FormatOK_AtLeast(buffer) == strlen(buffer) >= 2

\* strlen(inputBuffer) != 2 is the format error
FormatOK(buffer) == strlen(buffer) = 2

\* currentGuess = tolower(inputBuffer[0])
GuessOf(buffer) == tolower(buffer[1])

\* mutant: a letter already guessed passes as new
Validate_NoDuplicate(buffer, guessed) ==
  IF ~FormatOK(buffer) THEN "format"
  ELSE IF ~isalpha(GuessOf(buffer)) THEN "letter"
  ELSE "new"

\* the validation chain of a turn: format, letter, duplicate, else a new letter
Validate(buffer, guessed) ==
  IF ~FormatOK(buffer) THEN "format"
  ELSE IF ~isalpha(GuessOf(buffer)) THEN "letter"
  ELSE IF strchr(guessed, GuessOf(buffer)) THEN "duplicate"
  ELSE "new"

\* mutant: the scan stops at the first match
Reveal_FirstOnly(secret, display, guess) ==
  [i \in 1..Len(secret) |->
     IF secret[i] = guess /\ \A j \in 1..(i - 1) : secret[j] # guess
     THEN guess ELSE display[i]]

\* the scan of secretWord: displayWord[i] = currentGuess where it matches
Reveal(secret, display, guess) ==
  [i \in 1..Len(secret) |-> IF secret[i] = guess THEN guess ELSE display[i]]

\* mutant: the flag is never set
CorrectGuess_Never(secret, guess) == FALSE

\* correctGuess after the scan
CorrectGuess(secret, guess) == \E i \in 1..Len(secret) : secret[i] = guess

\* mutant: every new letter is charged
Charge_Always(count, correct) == count + 1

\* incorrectGuesses after the turn
Charge(count, correct) == IF correct THEN count ELSE count + 1

\* mutant: the budget is tested one miss too late
IsLost_Late(count, max) == count > max

\* if (incorrectGuesses == maxIncorrectGuesses)
IsLost(count, max) == count = max

\* mutant: a complete pattern is not noticed
IsSolved_Never(display) == FALSE

\* strchr(displayWord, '_') == NULL
IsSolved(display) == ~strchr(display, PLACEHOLDER)

\* the message printed after the round loop
FinalMessage(won) == IF won THEN "won" ELSE "lost"

(***************************************************************************)
(* drawHangman: the seven lines printed on stdout, and whether the warning *)
(* of the default case goes to stderr.                                     *)
(***************************************************************************)
Gallows(l3, l4, l5) ==
  <<"  +---+", "  |   |", l3, l4, l5, "      |", "=========">>

HangmanArt(n) ==
  CASE n = 0 -> Gallows("      |", "      |", "      |")
    [] n = 1 -> Gallows("  O   |", "      |", "      |")
    [] n = 2 -> Gallows("  O   |", "  |   |", "      |")
    [] n = 3 -> Gallows("  O   |", " /|   |", "      |")
    [] n = 4 -> Gallows("  O   |", " /|\\  |", "      |")
    [] n = 5 -> Gallows("  O   |", " /|\\  |", " /    |")
    [] n = 6 -> Gallows("  O   |", " /|\\  |", " / \\  |")
    [] OTHER -> Gallows("  O   |", " /|\\  |", " / \\  |")

\* mutant: the stage is the count modulo the number of stages
drawHangman_Wrap(n) == [art |-> HangmanArt(n % 7), warning |-> n \notin 0..6]

drawHangman(n) == [art |-> HangmanArt(n), warning |-> n \notin 0..6]

NoDrawing == [art |-> <<>>, warning |-> FALSE]


(***************************************************************************)
(* The environment: the word file and the input the player may type.       *)
(***************************************************************************)
\* words.txt as loadWords returns it; the third word is stored capitalised
wordList == << <<"a", "t">>, <<"t", "a", "t">>, <<"A", "t">> >>

\* number of distinct letters of no word that the player has at hand; a round
\* of the Easy tier is lost only with EASY_GUESSES of them
MaxNoise == 8

\* lower-case letters of no word of wordList, in the order the player uses them
NoisePool == <<"d", "e", "f", "g", "h", "i", "j", "k", "l", "m">>
NoiseLetters == SubSeq(NoisePool, 1, MaxNoise)

LongLine == <<"y", "e", "s", "y", "e", "s", "y", "e", "s", "3">>

Terminated(lines) == {line \o <<NL>> : line \in lines}

\* what a read of the difficulty choice meets at the start of a line: lines
\* with their newline, lines cut short by end-of-input, end-of-input (<<>>)
DifficultyTexts ==
  Terminated({ <<"1">>, <<"2">>, <<"3">>, <<"0">>, <<"4">>, <<>>, <<" ", "1">>,
               <<"1", "0">>, <<"3", "a">>, <<"-", "1">>,
               <<FORM_FEED, "1">>, <<VERTICAL_TAB, "3">>,
               <<"b", "a", "n", "a", "n", "a">>, LongLine })
  \cup { <<"3">>, <<>> }

\* what a read of a guess meets at the start of a line
GuessTexts ==
  Terminated({<<c>> : c \in {"a", "t", "A", "1"} \cup Range(NoiseLetters)}
             \cup { <<>>, <<" ", "a">>, LongLine })
  \cup { <<"a">>, <<"a", "t">>, <<>> }

\* what a read of the play-again answer meets at the start of a line
AnswerTexts ==
  Terminated({ <<"y">>, <<"Y">>, <<"n">>, <<"a">>, <<>>, <<" ", "y">>,
               <<"y", "e", "s">>, LongLine })
  \cup { <<"y">>, <<>> }

\* what pauseForUser meets at the start of a line
PauseTexts == { <<NL>>, <<"a", NL>>, <<"a">>, <<>> }

\* Letters of no word are interchangeable for the program: the player types
\* a new one only when it is the first of NoiseLetters not guessed yet, and
\* types again only the first of them.
NextNoise(guessed) ==
  LET left == {i \in 1..Len(NoiseLetters) : ~strchr(guessed, NoiseLetters[i])}
  IN IF left = {} THEN NUL
     ELSE NoiseLetters[CHOOSE i \in left : \A j \in left : i <= j]

Typed(t, guessed) ==
  LET buffer == fgets(t).buf
  IN (FormatOK(buffer) /\ GuessOf(buffer) \in Range(NoiseLetters))
        => GuessOf(buffer) \in {NextNoise(guessed), NoiseLetters[1]}

\* the fresh texts a read may meet: none matters unless it starts a line
Fresh(texts) == IF unread # <<>> \/ ended THEN {<<>>} ELSE texts

(***************************************************************************)
(* Initial state: main() is about to call loadWords.                       *)
(***************************************************************************)
Init ==
  /\ pc = "load"
  /\ exitCode = -1
  /\ freeCount = 0
  /\ loadedWordCount = 0
  /\ playAgain = "y"
  /\ maxIncorrectGuesses = MEDIUM_GUESSES
  /\ difficultyChoice = -1
  /\ secretWord = <<>>
  /\ incorrectGuesses = 0
  /\ displayWord = <<>>
  /\ guessedLetters = <<>>
  /\ gameOver = FALSE
  /\ playerWon = FALSE
  /\ inputBuffer = <<>>
  /\ currentGuess = NUL
  /\ lastResult = "none"
  /\ message = "none"
  /\ unread = <<>>
  /\ ended = FALSE
  /\ difficultyBuffer = <<>>
  /\ responseBuffer = <<>>
  /\ discarded = 0
  /\ pausedLine = <<>>
  /\ drawing = NoDrawing

(***************************************************************************)
(* main, lines 677-693: loading the word list.                             *)
(***************************************************************************)
\* loadWords returns NULL: return 1
LoadFails ==
  /\ pc = "load"
  /\ pc' = "done"
  /\ exitCode' = 1
  /\ UNCHANGED <<freeCount, loadedWordCount, playAgain, maxIncorrectGuesses,
                 difficultyChoice, roundVars, unread, ended, difficultyBuffer,
                 responseBuffer>>

\* mutant: a list of no word is played with
LoadEmpty_Continues ==
  /\ pc = "load"
  /\ pc' = "difficulty"
  /\ loadedWordCount' = 0
  /\ UNCHANGED <<exitCode, freeCount, playAgain, maxIncorrectGuesses,
                 difficultyChoice, roundVars, unread, ended, difficultyBuffer,
                 responseBuffer>>

\* loadWords returns a list of no word (a file of empty lines): free it, return 1
LoadEmpty ==
  /\ pc = "load"
  /\ pc' = "done"
  /\ loadedWordCount' = 0
  /\ freeCount' = freeCount + 1
  /\ exitCode' = 1
  /\ UNCHANGED <<playAgain, maxIncorrectGuesses, difficultyChoice, roundVars,
                 unread, ended, difficultyBuffer, responseBuffer>>

\* the list is loaded; main prints the difficulty menu and reads the choice
LoadOk ==
  /\ pc = "load"
  /\ pc' = "difficulty"
  /\ loadedWordCount' = Len(wordList)
  /\ playAgain' = "y"
  /\ maxIncorrectGuesses' = MEDIUM_GUESSES
  /\ UNCHANGED <<exitCode, freeCount, difficultyChoice, roundVars, unread, ended,
                 difficultyBuffer, responseBuffer>>

\* mutant: the list is not released
Cleanup_NoFree ==
  /\ pc' = "done"
  /\ freeCount' = freeCount
  /\ exitCode' = 0

\* after the do-while loop: freeWordList, return 0
Cleanup ==
  /\ pc' = "done"
  /\ freeCount' = freeCount + 1
  /\ exitCode' = 0

(***************************************************************************)
(* main, lines 697-763: difficulty selection and the start of a round.     *)
(***************************************************************************)
\* mutant: the loop variable is left as it was
AnswerOnEOF_Keep(old) == old

\* playAgain = 'n' when the choice cannot be read
AnswerOnEOF(old) == "n"

\* while (playAgain == 'y')
LoopTest(answer) == answer = "y"

\* fgets returns NULL: playAgain = 'n'; continue jumps to the loop test
DifficultyEOF ==
  /\ pc = "difficulty"
  /\ \E t \in Fresh(DifficultyTexts) :
       LET r == fgets(Source(unread, ended, t))
       IN /\ r.buf = <<>>
          /\ unread' = r.unread
          /\ ended' = r.ended
  /\ difficultyBuffer' = <<>>
  /\ difficultyChoice' = -1
  /\ playAgain' = AnswerOnEOF(playAgain)
  /\ IF LoopTest(AnswerOnEOF(playAgain))
     THEN pc' = "difficulty" /\ UNCHANGED <<exitCode, freeCount>>
     ELSE Cleanup
  /\ UNCHANGED <<loadedWordCount, maxIncorrectGuesses, roundVars, responseBuffer>>

\* mutant: the letters of the round before are kept
InitGuessed_Keep(old) == old

\* char guessedLetters[ALPHABET_SIZE + 1] = {0}; numGuessedLetters = 0
InitGuessed(old) == <<>>

\* a choice is read: switch, pauseForUser, pick the word, initialise the round
SelectDifficulty ==
  /\ pc = "difficulty"
  /\ \E t \in Fresh(DifficultyTexts), p \in PauseTexts :
       LET r == fgets(Source(unread, ended, t))
           choice == sscanf_d(r.buf, -1)
           c == consumeRemainingInput(Source(r.unread, r.ended, p))
       IN /\ r.buf # <<>>
          /\ difficultyBuffer' = r.buf
          /\ difficultyChoice' = choice
          /\ maxIncorrectGuesses' = DifficultyGuesses(choice)
          /\ unread' = c.unread
          /\ ended' = c.ended
  /\ \E randomIndex \in 0..(loadedWordCount - 1) :
       /\ secretWord' = wordList[randomIndex + 1]
       /\ displayWord' = InitDisplay(wordList[randomIndex + 1])
  /\ incorrectGuesses' = 0
  /\ guessedLetters' = InitGuessed(guessedLetters)
  /\ gameOver' = FALSE
  /\ playerWon' = FALSE
  /\ inputBuffer' = <<>>
  /\ currentGuess' = NUL
  /\ lastResult' = "none"
  /\ message' = "none"
  /\ discarded' = 0
  /\ pausedLine' = <<>>
  /\ drawing' = drawHangman(0)
  /\ responseBuffer' = <<>>
  /\ pc' = "guess"
  /\ UNCHANGED <<exitCode, freeCount, loadedWordCount, playAgain>>

(***************************************************************************)
(* main, lines 765-874: one turn of the round loop; when the loop ends,    *)
(* the final message and the play-again prompt follow in the same step.    *)
(***************************************************************************)
\* mutant: the loop runs until the word is guessed
RoundLoop_UntilWon(over, won) == IF won THEN "playAgain" ELSE "guess"

\* while (!gameOver): where main blocks next, given gameOver and playerWon
RoundLoop(over, won) == IF over THEN "playAgain" ELSE "guess"

\* fgets returns NULL: gameOver = 1; the loop ends
GuessEOF ==
  /\ pc = "guess"
  /\ \E t \in Fresh(GuessTexts) :
       LET r == fgets(Source(unread, ended, t))
       IN /\ r.buf = <<>>
          /\ unread' = r.unread
          /\ ended' = r.ended
  /\ inputBuffer' = <<>>
  /\ currentGuess' = NUL
  /\ lastResult' = "eof"
  /\ gameOver' = TRUE
  /\ message' = FinalMessage(playerWon)
  /\ drawing' = drawHangman(incorrectGuesses)
  /\ pc' = RoundLoop(TRUE, playerWon)
  /\ UNCHANGED <<exitCode, freeCount, loadedWordCount, playAgain,
                 maxIncorrectGuesses, difficultyChoice, secretWord,
                 incorrectGuesses, displayWord, guessedLetters, playerWon,
                 difficultyBuffer, responseBuffer, discarded, pausedLine>>

\* format error, not a letter, or already guessed: message, pauseForUser,
\* continue; t is the text the guess is read from, p the text the pause meets
RejectedTurn(t, p) ==
  /\ pc = "guess"
  /\ LET r == fgets(Source(unread, ended, t))
         v == Validate(r.buf, guessedLetters)
         c == consumeRemainingInput(Source(r.unread, r.ended, p))
     IN /\ Typed(t, guessedLetters)
        /\ r.buf # <<>>
        /\ v # "new"
        /\ inputBuffer' = r.buf
        /\ currentGuess' = IF v = "format" THEN NUL ELSE GuessOf(r.buf)
        /\ lastResult' = v
        /\ discarded' = Lines(c.eaten) - Lines(r.unread)
        /\ pausedLine' = IF r.unread = <<>> /\ EndsLine(c.eaten) THEN c.eaten
                         ELSE <<>>
        /\ unread' = c.unread
        /\ ended' = c.ended
  /\ drawing' = drawHangman(incorrectGuesses)
  /\ UNCHANGED <<pc, exitCode, freeCount, loadedWordCount, playAgain,
                 maxIncorrectGuesses, difficultyChoice, secretWord,
                 incorrectGuesses, displayWord, guessedLetters, gameOver,
                 playerWon, message, difficultyBuffer, responseBuffer>>

GuessRejected == \E t \in Fresh(GuessTexts), p \in PauseTexts : RejectedTurn(t, p)

\* a new letter: record it, scan the word, charge a miss, test for loss and win
GuessAccepted ==
  /\ pc = "guess"
  /\ \E t \in Fresh(GuessTexts) :
       LET r == fgets(Source(unread, ended, t))
           guess == GuessOf(r.buf)
           correct == CorrectGuess(secretWord, guess)
           shown == Reveal(secretWord, displayWord, guess)
           count == Charge(incorrectGuesses, correct)
           lost == IsLost(count, maxIncorrectGuesses)
           won == ~lost /\ IsSolved(shown)
       IN /\ Typed(t, guessedLetters)
          /\ r.buf # <<>>
          /\ Validate(r.buf, guessedLetters) = "new"
          /\ inputBuffer' = r.buf
          /\ currentGuess' = guess
          /\ guessedLetters' = Append(guessedLetters, guess)
          /\ displayWord' = shown
          /\ incorrectGuesses' = count
          /\ lastResult' = IF correct THEN "correct" ELSE "incorrect"
          /\ gameOver' = (lost \/ won)
          /\ playerWon' = won
          /\ message' = IF RoundLoop(lost \/ won, won) = "playAgain"
                         THEN FinalMessage(won) ELSE message
          /\ pc' = RoundLoop(lost \/ won, won)
          /\ drawing' = drawHangman(count)
          /\ unread' = r.unread
          /\ ended' = r.ended
  /\ discarded' = 0
  /\ pausedLine' = <<>>
  /\ UNCHANGED <<exitCode, freeCount, loadedWordCount, playAgain,
                 maxIncorrectGuesses, difficultyChoice, secretWord,
                 difficultyBuffer, responseBuffer>>

(***************************************************************************)
(* main, lines 874-895: the play-again answer and the loop test.           *)
(***************************************************************************)
\* mutant: the first character is compared as typed
Answer_AsTyped(buffer) == IF buffer = <<>> THEN "n" ELSE buffer[1]

\* playAgain after the read: 'n' on NULL, else the first character lowered
Answer(buffer) == IF buffer = <<>> THEN "n" ELSE tolower(buffer[1])

\* the answer starts with 'y' or 'Y': the loop repeats with the difficulty menu
PlayAgainYes ==
  /\ pc = "playAgain"
  /\ \E t \in Fresh(AnswerTexts) :
       LET r == fgets(Source(unread, ended, t))
       IN /\ LoopTest(Answer(r.buf))
          /\ responseBuffer' = r.buf
          /\ playAgain' = Answer(r.buf)
          /\ unread' = r.unread
          /\ ended' = r.ended
  /\ pc' = "difficulty"
  /\ UNCHANGED <<exitCode, freeCount, loadedWordCount, maxIncorrectGuesses,
                 difficultyChoice, roundVars, difficultyBuffer>>

\* end-of-input or any other answer: the loop ends, cleanup, return 0
PlayAgainNo ==
  /\ pc = "playAgain"
  /\ \E t \in Fresh(AnswerTexts) :
       LET r == fgets(Source(unread, ended, t))
       IN /\ ~LoopTest(Answer(r.buf))
          /\ responseBuffer' = r.buf
          /\ playAgain' = Answer(r.buf)
          /\ unread' = r.unread
          /\ ended' = r.ended
  /\ Cleanup
  /\ UNCHANGED <<loadedWordCount, maxIncorrectGuesses, difficultyChoice, roundVars,
                 difficultyBuffer>>

Next ==
  \/ LoadFails
  \/ LoadEmpty
  \/ LoadOk
  \/ DifficultyEOF
  \/ SelectDifficulty
  \/ GuessEOF
  \/ GuessRejected
  \/ GuessAccepted
  \/ PlayAgainYes
  \/ PlayAgainNo

Spec == Init /\ [][Next]_vars

(***************************************************************************)
(* The input of a round that goes on: it ends, or it holds a line with a   *)
(* letter not guessed yet, where the program reads a guess (GuessAccepted) *)
(* or where pauseForUser reads after a rejected guess.                     *)
(***************************************************************************)
NewLetterLine(p, guessed) ==
  /\ EndsLine(p)
  /\ Validate(p, guessed) = "new"

NewLetterPaused ==
  \E t \in Fresh(GuessTexts), p \in PauseTexts :
     /\ NewLetterLine(p, guessedLetters)
     /\ RejectedTurn(t, p)
     /\ pausedLine' = p

InputSupplies == GuessEOF \/ GuessAccepted \/ NewLetterPaused

\* the rounds of the three tiers: at the difficulty prompt the player types
\* the number of a tier
LiveDifficultyLines == Terminated({ <<"1">>, <<"2">>, <<"3">> })

LiveSelectDifficulty ==
  /\ SelectDifficulty
  /\ difficultyBuffer' \in LiveDifficultyLines

LiveNext ==
  \/ LoadFails
  \/ LoadEmpty
  \/ LoadOk
  \/ DifficultyEOF
  \/ LiveSelectDifficulty
  \/ GuessEOF
  \/ GuessRejected
  \/ GuessAccepted
  \/ PlayAgainYes
  \/ PlayAgainNo

LiveSpec == Init /\ [][LiveNext]_vars /\ WF_vars(InputSupplies)


(***************************************************************************)
(* The fixed-budget program, the first main of the file (lines 1-382).     *)
(* It plays one round with MAX_INCORRECT_GUESSES misses allowed and reads  *)
(* its guesses with fgets as the other program does; its pauseForUser has  *)
(* loops of its own.  It shares the names of its variables with the other  *)
(* program; playAgain, maxIncorrectGuesses, difficultyChoice,              *)
(* difficultyBuffer, responseBuffer, pausedLine and drawing are not        *)
(* variables of this program and stay as they start.                       *)
(***************************************************************************)
MAX_INCORRECT_GUESSES == 6

FixedIdle == <<playAgain, maxIncorrectGuesses, difficultyChoice,
               difficultyBuffer, responseBuffer, pausedLine, drawing>>

\* char discard holds what getchar() returned: where char is signed, as it is
\* for this program, the byte 0xFF is -1 there and equals EOF
CHAR_EOF == "ÿ"

\* while ((discard = getchar()) != '\n' && discard != EOF): the loop takes
\* the characters of src up to and including the first newline or byte 0xFF
\* and leaves the rest unread; with neither it takes all of src and meets
\* the end of the input
FixedDiscardLoop(src) ==
  LET stops == {i \in 1..Len(src) : src[i] \in {NL, CHAR_EOF}}
  IN IF stops = {} THEN [unread |-> <<>>, ended |-> TRUE, eaten |-> src]
     ELSE LET k == CHOOSE i \in stops : \A j \in stops : i <= j
              rest == SubSeq(src, k + 1, Len(src))
          IN [unread |-> rest, ended |-> rest = <<>> /\ src[k] # NL,
              eaten |-> SubSeq(src, 1, k)]

\* what pauseForUser of this program meets at the start of a line
FixedPauseTexts == PauseTexts \cup { <<CHAR_EOF, "a", NL>> }

\* the fresh texts a getchar() loop may meet after a read that left u unread
FixedFresh(u, e) == IF u # <<>> \/ e THEN {<<>>} ELSE FixedPauseTexts

\* the fresh texts <<p1, p2>> the two loops of pauseForUser may meet after a
\* read that left u unread: none matters unless its loop starts a line
FixedPauseInputs(u, e) ==
  {pp \in FixedFresh(u, e) \X (FixedPauseTexts \cup {<<>>}) :
     LET first == FixedDiscardLoop(Source(u, e, pp[1]))
     IN pp[2] \in FixedFresh(first.unread, first.ended)}

\* pauseForUser of this program: two loops of getchar(), the first on the
\* text src, the second on what follows it (the rest of src, or the text
\* next unless the input has ended)
FixedPauseForUser(src, next) ==
  LET first == FixedDiscardLoop(src)
      second == FixedDiscardLoop(Source(first.unread, first.ended, next))
  IN [unread |-> second.unread, ended |-> second.ended,
      eaten |-> first.eaten \o second.eaten]

\* int guessesRemaining = MAX_INCORRECT_GUESSES - incorrectGuesses, computed
\* when the turn starts
GuessesRemaining(count) == MAX_INCORRECT_GUESSES - count

\* if (guessesRemaining <= 0 && !gameOver) at the end of a turn
FixedOutOfGuesses(remaining, over) == remaining <= 0 /\ ~over

FixedInit ==
  /\ pc = "load"
  /\ exitCode = -1
  /\ freeCount = 0
  /\ loadedWordCount = 0
  /\ secretWord = <<>>
  /\ incorrectGuesses = 0
  /\ displayWord = <<>>
  /\ guessedLetters = <<>>
  /\ gameOver = FALSE
  /\ playerWon = FALSE
  /\ inputBuffer = <<>>
  /\ currentGuess = NUL
  /\ lastResult = "none"
  /\ message = "none"
  /\ unread = <<>>
  /\ ended = FALSE
  /\ discarded = 0
  /\ pausedLine = <<>>
  /\ playAgain = NUL
  /\ maxIncorrectGuesses = MAX_INCORRECT_GUESSES
  /\ difficultyChoice = -1
  /\ difficultyBuffer = <<>>
  /\ responseBuffer = <<>>
  /\ drawing = NoDrawing

\* loadWords returns NULL: return 1
FixedLoadFails ==
  /\ pc = "load"
  /\ pc' = "done"
  /\ exitCode' = 1
  /\ UNCHANGED <<freeCount, loadedWordCount, roundVars, unread, ended, FixedIdle>>

\* loadWords returns a list of no word: free it, return 1
FixedLoadEmpty ==
  /\ pc = "load"
  /\ pc' = "done"
  /\ loadedWordCount' = 0
  /\ freeCount' = freeCount + 1
  /\ exitCode' = 1
  /\ UNCHANGED <<roundVars, unread, ended, FixedIdle>>

\* the list is loaded: pick the word, initialise the round, enter the loop
FixedStart ==
  /\ pc = "load"
  /\ loadedWordCount' = Len(wordList)
  /\ \E randomIndex \in 0..(Len(wordList) - 1) :
       /\ secretWord' = wordList[randomIndex + 1]
       /\ displayWord' = InitDisplay(wordList[randomIndex + 1])
  /\ incorrectGuesses' = 0
  /\ guessedLetters' = <<>>
  /\ gameOver' = FALSE
  /\ playerWon' = FALSE
  /\ pc' = "guess"
  /\ UNCHANGED <<exitCode, freeCount, inputBuffer, currentGuess, lastResult,
                 message, discarded, unread, ended, FixedIdle>>

\* after the loop: the final message by playerWon, freeWordList, return 0
FixedEnd ==
  /\ message' = FinalMessage(playerWon)
  /\ freeCount' = freeCount + 1
  /\ exitCode' = 0
  /\ pc' = "done"

\* fgets returns NULL: gameOver = 1; continue ends the loop
FixedGuessEOF ==
  /\ pc = "guess"
  /\ \E t \in Fresh(GuessTexts) :
       LET r == fgets(Source(unread, ended, t))
       IN /\ r.buf = <<>>
          /\ unread' = r.unread
          /\ ended' = r.ended
  /\ inputBuffer' = <<>>
  /\ currentGuess' = NUL
  /\ lastResult' = "eof"
  /\ gameOver' = TRUE
  /\ FixedEnd
  /\ UNCHANGED <<loadedWordCount, secretWord, incorrectGuesses, displayWord,
                 guessedLetters, playerWon, discarded, FixedIdle>>

\* format error, not a letter, or already guessed: message, pauseForUser,
\* continue, which skips the test of guessesRemaining
FixedGuessRejected ==
  /\ pc = "guess"
  /\ \E t \in Fresh(GuessTexts) :
       LET r == fgets(Source(unread, ended, t))
           v == Validate(r.buf, guessedLetters)
       IN /\ Typed(t, guessedLetters)
          /\ r.buf # <<>>
          /\ v # "new"
          /\ inputBuffer' = r.buf
          /\ currentGuess' = IF v = "format" THEN NUL ELSE GuessOf(r.buf)
          /\ lastResult' = v
          /\ \E pp \in FixedPauseInputs(r.unread, r.ended) :
               LET c == FixedPauseForUser(Source(r.unread, r.ended, pp[1]),
                                          pp[2])
               IN /\ discarded' = Lines(c.eaten) - Lines(r.unread)
                  /\ unread' = c.unread
                  /\ ended' = c.ended
  /\ UNCHANGED <<pc, exitCode, freeCount, loadedWordCount, secretWord,
                 incorrectGuesses, displayWord, guessedLetters, gameOver,
                 playerWon, message, FixedIdle>>

\* a new letter: record it, scan the word, charge a miss; the loop ends only
\* if no guess remained when the turn started
FixedGuessAccepted ==
  /\ pc = "guess"
  /\ \E t \in Fresh(GuessTexts) :
       LET r == fgets(Source(unread, ended, t))
           guess == GuessOf(r.buf)
           correct == CorrectGuess(secretWord, guess)
           out == FixedOutOfGuesses(GuessesRemaining(incorrectGuesses), gameOver)
       IN /\ Typed(t, guessedLetters)
          /\ r.buf # <<>>
          /\ Validate(r.buf, guessedLetters) = "new"
          /\ inputBuffer' = r.buf
          /\ currentGuess' = guess
          /\ guessedLetters' = Append(guessedLetters, guess)
          /\ displayWord' = Reveal(secretWord, displayWord, guess)
          /\ incorrectGuesses' = Charge(incorrectGuesses, correct)
          /\ lastResult' = IF correct THEN "correct" ELSE "incorrect"
          /\ gameOver' = out
          /\ IF out
             THEN /\ \E pp \in FixedPauseInputs(r.unread, r.ended) :
                       LET c == FixedPauseForUser(
                                  Source(r.unread, r.ended, pp[1]), pp[2])
                       IN /\ discarded' = Lines(c.eaten) - Lines(r.unread)
                          /\ unread' = c.unread
                          /\ ended' = c.ended
                  /\ FixedEnd
             ELSE /\ discarded' = 0
                  /\ unread' = r.unread
                  /\ ended' = r.ended
                  /\ UNCHANGED <<pc, message, freeCount, exitCode>>
  /\ UNCHANGED <<loadedWordCount, secretWord, playerWon, FixedIdle>>

FixedNext ==
  \/ FixedLoadFails
  \/ FixedLoadEmpty
  \/ FixedStart
  \/ FixedGuessEOF
  \/ FixedGuessRejected
  \/ FixedGuessAccepted

FixedSpec == FixedInit /\ [][FixedNext]_vars


(***************************************************************************)
(* Vocabulary of the properties.                                           *)
(***************************************************************************)
\* the variables of a round are live: a round is being played or just ended
InRound == pc \in {"guess", "playAgain"}

\* the round loop was left because a guess prompt met end-of-input
Abandoned == lastResult = "eof"

\* the last step of the round loop handled a line of input
TurnDone == lastResult \in {"format", "letter", "duplicate", "correct", "incorrect"}

Rejections == {"format", "letter", "duplicate"}

\* every character of the secret word has been guessed
Covered == Range(secretWord) \subseteq Range(guessedLetters)

\* number of guessed letters that do not occur in the word w
Misses(guessed, w) ==
  Cardinality({i \in 1..Len(guessed) : guessed[i] \notin Range(w)})

\* x and y are the same letter of the alphabet, in whatever case
SameLetter(x, y) ==
  \E i \in 1..ALPHABET_SIZE : {x, y} \subseteq {LowerCase[i], UpperCase[i]}

\* the line typed, without its newline
Content(buffer) ==
  IF EndsLine(buffer) THEN SubSeq(buffer, 1, Len(buffer) - 1) ELSE buffer

\* a line without its leading and trailing blanks
RECURSIVE TrimLeft(_)
TrimLeft(line) ==
  IF line # <<>> /\ Head(line) = " " THEN TrimLeft(Tail(line)) ELSE line

RECURSIVE TrimRight(_)
TrimRight(line) ==
  IF line # <<>> /\ line[Len(line)] = " "
  THEN TrimRight(SubSeq(line, 1, Len(line) - 1)) ELSE line

Trim(line) == TrimRight(TrimLeft(line))

(***************************************************************************)
(* C1: once the accepted guesses of a round cover every letter of the      *)
(* secret word, the reveal pattern is exactly the word and the round is    *)
(* Won, with fewer than maxIncorrectGuesses misses; and a round is Won     *)
(* only then.                                                              *)
(***************************************************************************)
C1_CoveredIsWon ==
  InRound =>
    /\ Covered <=> playerWon
    /\ Covered => /\ displayWord = secretWord
                  /\ gameOver
                  /\ message = "won"
                  /\ pc = "playAgain"
                  /\ incorrectGuesses < maxIncorrectGuesses

\* "tat" won by d (a miss), a, t
C1_Witness ==
  /\ pc = "playAgain"
  /\ secretWord = <<"t", "a", "t">>
  /\ guessedLetters = <<"d", "a", "t">>
  /\ displayWord = secretWord
  /\ playerWon

(***************************************************************************)
(* C2: the round is Lost exactly when the number of guessed letters that   *)
(* do not occur in the secret word reaches maxIncorrectGuesses: with fewer *)
(* misses an unfinished round is still at the guess prompt, and with the   *)
(* last miss the loss is reported in the same step, at the play-again      *)
(* prompt, with no further guess read.                                     *)
(***************************************************************************)
C2_LostAtLastMiss ==
  InRound =>
    LET misses == Misses(guessedLetters, secretWord)
    IN /\ misses <= maxIncorrectGuesses
       /\ misses = maxIncorrectGuesses =>
            /\ pc = "playAgain"
            /\ gameOver /\ ~playerWon
            /\ lastResult = "incorrect"
            /\ message = "lost"
       /\ (misses < maxIncorrectGuesses /\ ~playerWon /\ ~Abandoned) =>
            /\ pc = "guess"
            /\ ~gameOver
            /\ message = "none"

\* Hard tier, "at": lost with the fourth miss
C2_Witness ==
  /\ pc = "playAgain"
  /\ maxIncorrectGuesses = HARD_GUESSES
  /\ secretWord = <<"a", "t">>
  /\ guessedLetters = <<"d", "a", "e", "f", "g">>
  /\ message = "lost"

(***************************************************************************)
(* C3: a turn that ends in a rejection (format, not a letter, duplicate)   *)
(* changes nothing of the round; and a line that passes the format and     *)
(* letter checks with a letter already guessed, typed in either case, is   *)
(* rejected as a duplicate.                                                *)
(***************************************************************************)
C3_RejectionKeepsState ==
  [][ (pc = "guess" /\ lastResult' # "eof") =>
        /\ lastResult' \in Rejections =>
             UNCHANGED <<pc, secretWord, maxIncorrectGuesses, incorrectGuesses,
                         displayWord, guessedLetters, gameOver, playerWon,
                         message>>
        /\ ( /\ lastResult' \notin {"format", "letter"}
             /\ \E g \in Range(guessedLetters) : SameLetter(inputBuffer'[1], g) )
           => lastResult' = "duplicate"
    ]_vars

\* "A" typed after a was guessed
C3_Witness ==
  /\ pc = "guess"
  /\ lastResult = "duplicate"
  /\ inputBuffer = <<"A", NL>>
  /\ guessedLetters = <<"a">>

(***************************************************************************)
(* C4 (as claimed): a turn is rejected with the format error when the line *)
(* typed is empty or has more than one character, and as not a letter when *)
(* its one character is no ASCII letter; a line of one letter passes both  *)
(* checks as that letter in lower case.                                    *)
(***************************************************************************)
C4_Normalization ==
  (pc = "guess" /\ TurnDone) =>
    LET line == Content(inputBuffer)
    IN /\ Len(line) # 1 => lastResult = "format"
       /\ (Len(line) = 1 /\ ~isalpha(line[1])) => lastResult = "letter"
       /\ (Len(line) = 1 /\ isalpha(line[1])) =>
            /\ lastResult \notin {"format", "letter"}
            /\ islower(currentGuess)
            /\ SameLetter(currentGuess, line[1])

(***************************************************************************)
(* C5 (as claimed): the format check is made on the trimmed line: a line   *)
(* ended by its newline gets the format error exactly when its content     *)
(* without leading and trailing blanks is not one character.               *)
(***************************************************************************)
C5_TrimmedFormat ==
  (pc = "guess" /\ TurnDone /\ EndsLine(inputBuffer)) =>
    (lastResult = "format" <=> Len(Trim(Content(inputBuffer))) # 1)

(***************************************************************************)
(* C5 (amended): the format check is made on the text as read, untrimmed:  *)
(* a turn gets the format error exactly when the text read, newline        *)
(* included, is not two characters long; a letter with a blank before or   *)
(* after it is rejected with the format error.                             *)
(***************************************************************************)
C5_RawFormat ==
  (pc = "guess" /\ TurnDone) =>
    /\ lastResult = "format" <=> Len(inputBuffer) # 2
    /\ (EndsLine(inputBuffer) /\ Len(Content(inputBuffer)) > 1)
         => lastResult = "format"

\* " a" and its newline: format error
C5_Witness ==
  /\ pc = "guess"
  /\ lastResult = "format"
  /\ inputBuffer = <<" ", "a", NL>>

(***************************************************************************)
(* C6: in a round 0 <= incorrectGuesses <= maxIncorrectGuesses, with       *)
(* maxIncorrectGuesses one of 8, 6, 4; a turn changes incorrectGuesses     *)
(* only by +1, and exactly when it accepts a new letter that matches no    *)
(* position of the secret word.                                            *)
(***************************************************************************)
C6_MistakeCount ==
  /\ [](InRound => /\ maxIncorrectGuesses \in {EASY_GUESSES, MEDIUM_GUESSES, HARD_GUESSES}
                   /\ 0 <= incorrectGuesses
                   /\ incorrectGuesses <= maxIncorrectGuesses)
  /\ [][ pc = "guess" =>
           LET accepted == guessedLetters' # guessedLetters
               miss == \A i \in 1..Len(secretWord) : secretWord[i] # currentGuess'
           IN /\ incorrectGuesses' # incorrectGuesses
                   => /\ incorrectGuesses' = incorrectGuesses + 1
                      /\ accepted /\ miss
              /\ (accepted /\ miss) => incorrectGuesses' = incorrectGuesses + 1
       ]_vars

\* Easy tier: the eighth miss
C6_Witness ==
  /\ InRound
  /\ maxIncorrectGuesses = EASY_GUESSES
  /\ incorrectGuesses = EASY_GUESSES

(***************************************************************************)
(* C7: in a round displayWord is as long as secretWord, and position i     *)
(* shows secretWord[i] if that character is in guessedLetters and the      *)
(* placeholder otherwise.                                                  *)
(***************************************************************************)
C7_RevealPattern ==
  InRound =>
    /\ Len(displayWord) = Len(secretWord)
    /\ \A i \in 1..Len(secretWord) :
         displayWord[i] = IF secretWord[i] \in Range(guessedLetters)
                          THEN secretWord[i] ELSE PLACEHOLDER

\* "tat" after t: t_t
C7_Witness ==
  /\ pc = "guess"
  /\ secretWord = <<"t", "a", "t">>
  /\ guessedLetters = <<"t">>
  /\ displayWord = <<"t", "_", "t">>

(***************************************************************************)
(* C8 (as claimed): matching ignores case: after an accepted guess (a      *)
(* letter and its newline) every position whose character equals the       *)
(* guessed letter ignoring case is revealed, and such a guess is not       *)
(* charged as a mistake.                                                   *)
(***************************************************************************)
C8_CaseInsensitiveMatch ==
  (InRound /\ lastResult \in {"correct", "incorrect"} /\ EndsLine(inputBuffer)) =>
    \A i \in 1..Len(secretWord) :
      SameLetter(secretWord[i], currentGuess) =>
        /\ displayWord[i] # PLACEHOLDER
        /\ lastResult = "correct"

(***************************************************************************)
(* C9 (as claimed): a round abandoned by end-of-input at a guess prompt    *)
(* has no outcome: neither the win nor the loss message is printed.        *)
(***************************************************************************)
C9_AbandonedHasNoOutcome ==
  Abandoned => message = "none"

(***************************************************************************)
(* C10 (as claimed): after a round abandoned by end-of-input the session   *)
(* is over: the program is not at the play-again prompt (nor at any other  *)
(* prompt) but has ended.                                                  *)
(***************************************************************************)
C10_AbandonedEndsSession ==
  Abandoned => pc = "done"

(***************************************************************************)
(* C11 (as claimed): a rejected guess costs the offending input line only: *)
(* no other line is consumed or discarded before the next guess is read.   *)
(***************************************************************************)
C11_OnlyOffendingLine ==
  (pc = "guess" /\ lastResult \in Rejections) => discarded = 0

(***************************************************************************)
(* C11 (amended): after a rejected guess pauseForUser consumes the input   *)
(* up to and including the next newline, or up to end-of-input.  When the  *)
(* offending line was read whole this is the entire following line, which  *)
(* is discarded unevaluated; when the offending line did not fit the       *)
(* buffer it is the unread rest of that line.  The next guess is read at   *)
(* the start of the line after.                                            *)
(***************************************************************************)
C11_PauseTakesNextLine ==
  (pc = "guess" /\ lastResult \in Rejections) =>
    /\ unread = <<>>
    /\ discarded = IF EndsLine(inputBuffer) /\ ~ended THEN 1 ELSE 0

\* a duplicate guess read whole, and the line after it discarded
C11_Witness ==
  /\ pc = "guess"
  /\ lastResult = "duplicate"
  /\ EndsLine(inputBuffer)
  /\ discarded = 1

\* a line without the white space it starts with: blanks, tabs, form feeds
WhiteSpace == {" ", "\t", "\r", "\f", ""}

RECURSIVE TrimWhite(_)
TrimWhite(line) ==
  IF line # <<>> /\ Head(line) \in WhiteSpace THEN TrimWhite(Tail(line))
  ELSE line

\* the digits a line starts with, after its leading white space
NumberTyped(line) ==
  LET t == TrimWhite(line)
      k == CHOOSE j \in 0..Len(t) :
             /\ \A i \in 1..j : t[i] \in Range(Digits)
             /\ j = Len(t) \/ t[j + 1] \notin Range(Digits)
  IN SubSeq(t, 1, k)

\* a line that does not start with a number, signed or not
Unparseable(line) ==
  LET t == TrimWhite(line)
  IN NumberTyped(line) = <<>> /\ (t = <<>> \/ Head(t) \notin {"+", "-"})

(***************************************************************************)
(* C12: the difficulty choice never rejects or re-prompts.  In every round *)
(* the number typed selects the budget: 1 gives 8, 2 gives 6, 3 gives 4,   *)
(* and a line that holds no number, or a number other than 1, 2 and 3      *)
(* ("banana", "0", "4", "10", the empty line), gives 6.  One line read at  *)
(* the difficulty prompt always starts a round, and the budget does not    *)
(* change until the round has ended.                                       *)
(***************************************************************************)
C12_Budget ==
  InRound =>
    LET line == Content(difficultyBuffer)
        n == NumberTyped(line)
    IN /\ n = <<"1">> => maxIncorrectGuesses = EASY_GUESSES
       /\ n = <<"2">> => maxIncorrectGuesses = MEDIUM_GUESSES
       /\ n = <<"3">> => maxIncorrectGuesses = HARD_GUESSES
       /\ Unparseable(line) => maxIncorrectGuesses = MEDIUM_GUESSES
       /\ (Len(n) = 1 /\ n[1] \notin {"1", "2", "3"})
            => maxIncorrectGuesses = MEDIUM_GUESSES
       /\ (Len(n) > 1 /\ n[1] # "0") => maxIncorrectGuesses = MEDIUM_GUESSES
       /\ (TrimWhite(line) # <<>> /\ Head(TrimWhite(line)) = "-")
            => maxIncorrectGuesses = MEDIUM_GUESSES
       /\ maxIncorrectGuesses \in {EASY_GUESSES, MEDIUM_GUESSES, HARD_GUESSES}

\* C12: the budget rule in every round, one line read per prompt, and a
\* budget that stays as selected while the round lasts
C12_DifficultySelection ==
  /\ []C12_Budget
  /\ [][/\ InRound => maxIncorrectGuesses' = maxIncorrectGuesses
        /\ (pc = "difficulty" /\ difficultyBuffer' # <<>>) => pc' = "guess"
        /\ pc = "difficulty" => pc' # "difficulty"]_vars

\* "banana" at the difficulty prompt: a round of the Medium tier is under way
C12_Witness ==
  /\ pc = "guess"
  /\ Content(difficultyBuffer) = <<"b", "a", "n", "a", "n", "a">>
  /\ maxIncorrectGuesses = MEDIUM_GUESSES
  /\ incorrectGuesses > HARD_GUESSES

(***************************************************************************)
(* C13: end-of-input at the difficulty prompt, in the first or in a later  *)
(* iteration of the session loop, ends the session at once: the process    *)
(* exits with status 0, no secret word is selected, no guess is prompted   *)
(* for and no round outcome is reported; nothing of a round changes.       *)
(***************************************************************************)
C13_DifficultyEOFEndsSession ==
  [][(pc = "difficulty" /\ (ended \/ difficultyBuffer' = <<>>)) =>
       /\ pc' = "done"
       /\ exitCode' = 0
       /\ playAgain' = "n"
       /\ UNCHANGED roundVars]_vars

\* the session ended at the difficulty prompt that followed a won round
C13_Witness ==
  /\ pc = "done"
  /\ difficultyBuffer = <<>>
  /\ responseBuffer # <<>>
  /\ playerWon
  /\ message = "won"

(***************************************************************************)
(* C14: at the play-again prompt the session goes on with a new difficulty *)
(* prompt exactly when a response is read whose first character is 'y' or  *)
(* 'Y'; end-of-input and every other response end the session.             *)
(***************************************************************************)
C14_PlayAgain ==
  [][pc = "playAgain" =>
       /\ pc' \in {"difficulty", "done"}
       /\ pc' = "difficulty" <=>
            (responseBuffer' # <<>> /\ responseBuffer'[1] \in {"y", "Y"})]_vars

\* a lost round answered with "Y": the difficulty prompt is next
C14_Witness ==
  /\ pc = "difficulty"
  /\ responseBuffer = <<"Y", NL>>
  /\ gameOver
  /\ ~playerWon
  /\ incorrectGuesses = maxIncorrectGuesses

(***************************************************************************)
(* C15: Won and Lost are terminal.  Once a round is over no guess is       *)
(* prompted for or applied to it, and its mistake count, reveal pattern,   *)
(* guessed letters and outcome never change again; they are replaced only  *)
(* when the next round is set up after a difficulty choice.                *)
(***************************************************************************)
C15_Terminal ==
  /\ [](gameOver => pc \in {"playAgain", "difficulty", "done"})
  /\ [][gameOver =>
          \/ UNCHANGED <<secretWord, incorrectGuesses, displayWord,
                         guessedLetters, gameOver, playerWon, message>>
          \/ pc = "difficulty" /\ pc' = "guess"]_vars

\* a won round after the answer "n" was read: the round is as it ended
C15_Witness ==
  /\ pc = "done"
  /\ responseBuffer = <<"n", NL>>
  /\ playerWon
  /\ displayWord = secretWord
  /\ incorrectGuesses > 0

(***************************************************************************)
(* C16: Lost and Won exclude each other.  No accepted guess both raises    *)
(* the mistake count to maxIncorrectGuesses and completes the reveal       *)
(* pattern, so the order of the two tests (Lost first) decides nothing: a  *)
(* round that ended is Lost exactly when the count equals the budget and   *)
(* Won exactly when the pattern is complete, and no state has the count at *)
(* the budget together with a win.                                         *)
(***************************************************************************)
C16_LostExcludesWon ==
  /\ [](~(incorrectGuesses = maxIncorrectGuesses /\ playerWon))
  /\ []((InRound /\ gameOver /\ ~Abandoned) =>
          /\ playerWon <=> incorrectGuesses < maxIncorrectGuesses
          /\ playerWon <=> displayWord = secretWord
          /\ message = IF playerWon THEN "won" ELSE "lost")
  /\ [][(pc = "guess" /\ incorrectGuesses' # incorrectGuesses
                      /\ incorrectGuesses' = maxIncorrectGuesses) =>
          (displayWord' # secretWord' /\ ~playerWon')]_vars

\* a round won by the last guess the budget allowed a miss on
C16_Witness ==
  /\ pc = "playAgain"
  /\ playerWon
  /\ incorrectGuesses = maxIncorrectGuesses - 1
  /\ lastResult = "correct"

(***************************************************************************)
(* C17: every round starts fresh, whatever the rounds before left behind:  *)
(* the step that sets a round up after the difficulty choice selects a     *)
(* word of the pool and leaves the mistake count at 0, no letter guessed,  *)
(* the reveal pattern at one placeholder per character of that word, and   *)
(* the round in progress with no outcome.                                  *)
(***************************************************************************)
C17_FreshRound ==
  [][(pc = "difficulty" /\ pc' = "guess") =>
       /\ secretWord' \in Range(wordList)
       /\ incorrectGuesses' = 0
       /\ guessedLetters' = <<>>
       /\ displayWord' = [i \in 1..Len(secretWord') |-> PLACEHOLDER]
       /\ ~gameOver'
       /\ ~playerWon'
       /\ message' = "none"]_vars

\* a lost round with letters guessed is still in the variables when the
\* next round is about to be set up
C17_Witness ==
  /\ pc = "difficulty"
  /\ gameOver
  /\ incorrectGuesses = maxIncorrectGuesses
  /\ guessedLetters # <<>>
  /\ displayWord # [i \in 1..Len(secretWord) |-> PLACEHOLDER]
  /\ ENABLED SelectDifficulty

\* nothing was prompted for: no input read, nothing drawn, no round set up
NoPrompt ==
  /\ unread = <<>> /\ ~ended
  /\ difficultyBuffer = <<>> /\ inputBuffer = <<>> /\ responseBuffer = <<>>
  /\ drawing = NoDrawing
  /\ secretWord = <<>>

(***************************************************************************)
(* C18: the process exits with status 1 exactly when the word source fails *)
(* to load or yields no word, and then before any prompt; on every other   *)
(* way to the end (a voluntary quit, end-of-input at any prompt) the       *)
(* status is 0.  No status exists before the process has ended.            *)
(***************************************************************************)
C18_ExitCode ==
  /\ pc # "done" => exitCode = -1
  /\ pc = "done" =>
       /\ exitCode \in {0, 1}
       /\ exitCode = 1 <=> loadedWordCount = 0
       /\ exitCode = 1 => NoPrompt

\* the word file held no word: the list is released and the status is 1
C18_Witness ==
  /\ pc = "done"
  /\ exitCode = 1
  /\ freeCount = 1
  /\ loadedWordCount = 0

(***************************************************************************)
(* C19: a word list that was loaded is released exactly once, and only     *)
(* when the process ends: on every way to the end of a session that had    *)
(* words the list has been released once, and it is never released while   *)
(* the session loop runs, so never while a round reads its secret word.    *)
(***************************************************************************)
C19_ReleasedOnce ==
  /\ freeCount \in {0, 1}
  /\ pc # "done" => freeCount = 0
  /\ (pc = "done" /\ loadedWordCount > 0) => freeCount = 1

\* end-of-input at a guess prompt and at the play-again prompt: released once
C19_Witness ==
  /\ pc = "done"
  /\ Abandoned
  /\ responseBuffer = <<>>
  /\ loadedWordCount > 0
  /\ freeCount = 1

(***************************************************************************)
(* C20: the illustration is a function of the mistake count alone and has  *)
(* seven stages: the stages of the counts 0 to 6 differ from one another,  *)
(* a count c of 0 to 6 shows stage c, and every count of 6 or more (7 and  *)
(* 8 occur in the Easy tier) shows the stage of 6.                         *)
(***************************************************************************)
C20_Illustration ==
  /\ \A c, d \in 0..6 : c # d => HangmanArt(c) # HangmanArt(d)
  /\ InRound =>
       drawing.art = HangmanArt(IF incorrectGuesses < 6 THEN incorrectGuesses
                                ELSE 6)

\* the eighth miss of an Easy round: the top stage is shown
C20_Witness ==
  /\ pc = "playAgain"
  /\ maxIncorrectGuesses = EASY_GUESSES
  /\ incorrectGuesses = 8
  /\ drawing.art = HangmanArt(6)

\* no element occurs twice in the sequence s
Distinct(s) == \A i, j \in 1..Len(s) : s[i] = s[j] => i = j

(***************************************************************************)
(* C21: in every state of a round incorrectGuesses is the number of        *)
(* letters of guessedLetters that do not occur in the secret word; every   *)
(* guessed letter is in guessedLetters once, so it was evaluated against   *)
(* the word once and charged at most once, and the other guessed letters   *)
(* are the ones revealed.                                                  *)
(***************************************************************************)
C21_CountIsMisses ==
  InRound =>
    /\ Distinct(guessedLetters)
    /\ incorrectGuesses =
         Cardinality({c \in Range(guessedLetters) : c \notin Range(secretWord)})
    /\ Len(guessedLetters) - incorrectGuesses =
         Cardinality(Range(guessedLetters) \cap Range(secretWord))

\* "tat" guessed with two misses among four letters
C21_Witness ==
  /\ pc = "playAgain"
  /\ secretWord = <<"t", "a", "t">>
  /\ playerWon
  /\ Len(guessedLetters) = 4
  /\ incorrectGuesses = 2

(***************************************************************************)
(* C22: within a round guessedLetters is kept in guess order and only      *)
(* grows: a turn leaves it alone or appends the letter just guessed.  It   *)
(* holds only the lower-case letters a..z, none of them twice, so its      *)
(* length numGuessedLetters is at most ALPHABET_SIZE and the terminator    *)
(* written at index numGuessedLetters lies inside the buffer of            *)
(* ALPHABET_SIZE + 1 bytes.                                                *)
(***************************************************************************)
C22_GuessedLetters ==
  /\ [](InRound =>
          /\ Range(guessedLetters) \subseteq Range(LowerCase)
          /\ Distinct(guessedLetters)
          /\ Len(guessedLetters) = Cardinality(Range(guessedLetters))
          /\ Len(guessedLetters) <= ALPHABET_SIZE
          /\ Len(guessedLetters) + 1 <= ALPHABET_SIZE + 1)
  /\ [][InRound =>
          \/ guessedLetters' = guessedLetters
          \/ /\ pc = "guess"
             /\ guessedLetters' = Append(guessedLetters, currentGuess')
             /\ currentGuess' \notin Range(guessedLetters)]_vars

\* the guess "A" was recorded as a, after a letter of no word
C22_Witness ==
  /\ pc = "guess"
  /\ inputBuffer = <<"A", NL>>
  /\ guessedLetters = <<"d", "a">>

\* the round loop is left: Won, Lost or abandoned
RoundExits == (pc = "guess") ~> (pc # "guess")

\* the word of the round is made of lower-case letters only
LowerCaseWord == Range(secretWord) \subseteq Range(LowerCase)

\* a round of a lower-case word that still prompts has letters of the word
\* left to guess and budget left, so fewer accepted guesses than the word has
\* letters and the budget allows misses, and fewer than the alphabet has
RoundMeasure ==
  (pc = "guess" /\ LowerCaseWord) =>
    /\ ~Covered
    /\ incorrectGuesses < maxIncorrectGuesses
    /\ Len(guessedLetters) <
         Cardinality(Range(secretWord)) + maxIncorrectGuesses - 1
    /\ Len(guessedLetters) < ALPHABET_SIZE

(***************************************************************************)
(* C23 (as claimed): if the input ends or supplies a letter not guessed    *)
(* yet, again and again as long as the round goes on, the round loop       *)
(* exits (LiveSpec states this assumption on the input).                   *)
(***************************************************************************)
C23_ExitsIfSupplied == RoundExits

\* the input of a round that goes on ends, or holds a letter not guessed yet
\* on a line that is read at a guess prompt
PromptSupplies == WF_vars(GuessEOF \/ GuessAccepted)

(***************************************************************************)
(* C23 (amended): a round of a lower-case word ends Won or Lost within 26  *)
(* accepted guesses, and the round loop of every word exits (Won, Lost or  *)
(* abandoned) if the input ends or, as long as the round goes on, supplies *)
(* a letter not guessed yet on a line read at a guess prompt.  End-of-input*)
(* leaves the loop at once, an accepted letter adds one to the guessed     *)
(* letters, and a rejected line, like the line pauseForUser consumes after *)
(* it, changes nothing: a letter on a consumed line does not count.        *)
(***************************************************************************)
C23_RoundTerminates ==
  /\ []RoundMeasure
  /\ PromptSupplies => RoundExits
  /\ [][pc = "guess" =>
          \/ /\ lastResult' \in Rejections
             /\ pc' = "guess"
             /\ UNCHANGED <<guessedLetters, incorrectGuesses, displayWord>>
          \/ lastResult' = "eof" /\ pc' = "playAgain"
          \/ /\ lastResult' \in {"correct", "incorrect"}
             /\ Len(guessedLetters') = Len(guessedLetters) + 1]_vars

\* a rejected guess whose pause consumed a line, with the letter a not guessed
C23_Witness ==
  /\ pc = "guess"
  /\ lastResult = "letter"
  /\ discarded = 1
  /\ pausedLine = <<"a", NL>>
  /\ ~strchr(guessedLetters, "a")
  /\ incorrectGuesses > 0

\* the fixed-budget program has set its round up: it prompts, or it is over
FixedRound == pc = "guess" \/ (pc = "done" /\ exitCode = 0)

(***************************************************************************)
(* C24 (as claimed): in the fixed-budget program incorrectGuesses stays    *)
(* within 0..MAX_INCORRECT_GUESSES, and the round is over as soon as the   *)
(* count has reached MAX_INCORRECT_GUESSES: no guess is prompted for with  *)
(* the budget used up.                                                     *)
(***************************************************************************)
C24_FixedBudget ==
  FixedRound =>
    /\ 0 <= incorrectGuesses
    /\ incorrectGuesses <= MAX_INCORRECT_GUESSES
    /\ incorrectGuesses = MAX_INCORRECT_GUESSES => (gameOver /\ pc = "done")

(***************************************************************************)
(* C25 (as claimed): in the fixed-budget program, once every letter of the *)
(* secret word is guessed and the reveal pattern holds no placeholder, the *)
(* round is over and reported as Won, with the congratulation message.     *)
(***************************************************************************)
C25_FixedWin ==
  (FixedRound /\ Covered /\ PLACEHOLDER \notin Range(displayWord)) =>
    /\ gameOver
    /\ playerWon
    /\ pc = "done"
    /\ message = "won"

====
